---------------------------- MODULE Spec2Model ----------------------------
(***************************************************************************)
(* Model of ent-rs (src/src/lib.rs): EntStats::from_data and the functions *)
(* it calls (calculate_entropy, calculate_chisquare, calculate_mean,       *)
(* estimate_pi, serial_correlation, byte_occurrences, bit_occurrences).    *)
(*                                                                         *)
(* Number representation.                                                  *)
(*  - An f64 is a record [kind, num, den]: kind "num" is the rational      *)
(*    num/den in lowest terms (den > 0), kind "nan" is NaN, kind "inf" is  *)
(*    an infinity whose sign is num.  Rounding is not modelled: within     *)
(*    the bounds every integer the code holds in an f64 is far below 2^53, *)
(*    so the sums of serial_correlation and the counts are exact; the      *)
(*    quotients are kept as exact rationals.  -0.0 is identified with 0.0. *)
(*  - f64::log2 is modelled in fixed point (LogFracBits fractional bits,   *)
(*    truncated); it is exact at powers of two, in particular log2(1) = 0. *)
(*  - The result of serial_correlation, num / sqrt(a * b), is kept as the  *)
(*    record [kind |-> "qsqrt", num, a, b] (a, b > 0).                     *)
(*  - A u64 is a little-endian sequence of 8 limbs in 0..255.              *)
(***************************************************************************)
EXTENDS Integers, Sequences, FiniteSets

VARIABLES data, bit_mode, pc, stats, overflow

vars == <<data, bit_mode, pc, stats, overflow>>

(***************************************************************************)
(* Bounds of the model.                                                    *)
(***************************************************************************)
\* longest buffer handed to from_data
MaxLen == 6
\* longest buffer handed to estimate_pi alone
MaxPiLen == 12

\* byte values the buffers of from_data are drawn from
Bytes == {5, 7, 255}
\* byte values the buffers of estimate_pi are drawn from
PiBytes == {0, 255}

RECURSIVE BoundedSeq(_, _)
BoundedSeq(S, n) ==
    IF n = 0 THEN {<<>>}
    ELSE LET shorter == BoundedSeq(S, n - 1)
         IN  shorter \cup {Append(s, b) : s \in {t \in shorter : Len(t) = n - 1}, b \in S}

(***************************************************************************)
(* Integer helpers of the rational representation of f64 values.           *)
(***************************************************************************)
Abs(n) == IF n < 0 THEN -n ELSE n

Sgn(n) == IF n < 0 THEN -1 ELSE IF n = 0 THEN 0 ELSE 1

RECURSIVE GCD(_, _)
GCD(a, b) == IF b = 0 THEN a ELSE GCD(b, a % b)

LCM(a, b) == (a \div GCD(a, b)) * b

(***************************************************************************)
(* f64 values and arithmetic.                                              *)
(***************************************************************************)
NaN == [kind |-> "nan", num |-> 0, den |-> 1]

Inf(s) == [kind |-> "inf", num |-> s, den |-> 1]

\* the rational n/d, d # 0, in lowest terms
Num(n, d) ==
    LET g == GCD(Abs(n), Abs(d))
    IN  [kind |-> "num", num |-> Sgn(d) * (n \div g), den |-> Abs(d) \div g]

F(n) == Num(n, 1)

\* a field of EntStats that has not been computed
Unset == [kind |-> "unset", num |-> 0, den |-> 1]

FNeg(a) ==
    CASE a.kind = "num" -> Num(-a.num, a.den)
      [] a.kind = "inf" -> Inf(-a.num)
      [] OTHER -> NaN

FAdd(a, b) ==
    CASE a.kind = "nan" \/ b.kind = "nan" -> NaN
      [] a.kind = "inf" /\ b.kind = "inf" -> IF a.num = b.num THEN a ELSE NaN
      [] a.kind = "inf" -> a
      [] b.kind = "inf" -> b
      [] OTHER -> LET l == LCM(a.den, b.den)
                  IN  Num(a.num * (l \div a.den) + b.num * (l \div b.den), l)

FSub(a, b) == FAdd(a, FNeg(b))

FMul(a, b) ==
    CASE a.kind = "nan" \/ b.kind = "nan" -> NaN
      [] a.kind = "inf" \/ b.kind = "inf" ->
            IF Sgn(a.num) * Sgn(b.num) = 0 THEN NaN ELSE Inf(Sgn(a.num) * Sgn(b.num))
      [] OTHER -> Num(a.num * b.num, a.den * b.den)

FDiv(a, b) ==
    CASE a.kind = "nan" \/ b.kind = "nan" -> NaN
      [] a.kind = "inf" /\ b.kind = "inf" -> NaN
      [] a.kind = "inf" -> Inf(IF b.num < 0 THEN -a.num ELSE a.num)
      [] b.kind = "inf" -> F(0)
      [] b.num = 0 -> IF a.num = 0 THEN NaN ELSE Inf(Sgn(a.num))
      [] OTHER -> Num(a.num * b.den * Sgn(b.num), a.den * Abs(b.num))

\* a < b, a <= b on f64: false as soon as one side is NaN
FLt(a, b) ==
    CASE a.kind = "nan" \/ b.kind = "nan" -> FALSE
      [] a.kind = "inf" /\ b.kind = "inf" -> a.num < b.num
      [] a.kind = "inf" -> a.num < 0
      [] b.kind = "inf" -> b.num > 0
      [] OTHER -> a.num * b.den < b.num * a.den

FEq(a, b) == a.kind # "nan" /\ b.kind # "nan" /\ a = b

FLe(a, b) == FLt(a, b) \/ FEq(a, b)

(***************************************************************************)
(* f64::log2 in fixed point.                                               *)
(***************************************************************************)
LogFracBits == 8

MantOne == 2^14

\* floor(log2(n / d)) for n >= d > 0
RECURSIVE IntLog2(_, _)
IntLog2(n, d) == IF 2 * d <= n THEN 1 + IntLog2(n, 2 * d) ELSE 0

\* k fractional bits of log2(m / MantOne), MantOne <= m < 2 * MantOne
RECURSIVE FracLog2(_, _)
FracLog2(m, k) ==
    IF k = 0 THEN 0
    ELSE LET s == (m * m) \div MantOne
         IN  IF s >= 2 * MantOne
             THEN 2^(k - 1) + FracLog2(s \div 2, k - 1)
             ELSE FracLog2(s, k - 1)

\* log2(n / d) * 2^LogFracBits, truncated, for n >= d > 0
FixLog2(n, d) ==
    LET e == IntLog2(n, d)
    IN  e * 2^LogFracBits + FracLog2((n * MantOne) \div (d * 2^e), LogFracBits)

Log2(p) ==
    CASE p.kind = "nan" -> NaN
      [] p.kind = "inf" -> IF p.num > 0 THEN p ELSE NaN
      [] p.num < 0 -> NaN
      [] p.num = 0 -> Inf(-1)
      [] p.num >= p.den -> Num(FixLog2(p.num, p.den), 2^LogFracBits)
      [] OTHER -> Num(-FixLog2(p.den, p.num), 2^LogFracBits)

(***************************************************************************)
(* Frequency counting: the loops `for &b in data { counts[b] += 1 }` and   *)
(* `for &b in data { for i in 0..8 { count[(b >> i) & 1] += 1 } }`.        *)
(***************************************************************************)
\* (b >> i) as usize & 1
BitAt(b, i) == (b \div 2^i) % 2

\* the counts after the first i bytes of d
RECURSIVE CountBytes(_, _)
CountBytes(d, i) ==
    IF i = 0 THEN [v \in 0..255 |-> 0]
    ELSE LET c == CountBytes(d, i - 1) IN [c EXCEPT ![d[i]] = @ + 1]

\* mutant of CountBitsOfByte: the loop `for i in 0..7`, bit 7 never counted
RECURSIVE CountBitsOfByteSevenBits(_, _, _)
CountBitsOfByteSevenBits(c, b, i) ==
    IF i >= 7 THEN c
    ELSE CountBitsOfByteSevenBits([c EXCEPT ![BitAt(b, i)] = @ + 1], b, i + 1)

\* the inner loop `for i in 0..8`, from bit i on
RECURSIVE CountBitsOfByte(_, _, _)
CountBitsOfByte(c, b, i) ==
    IF i >= 8 THEN c
    ELSE CountBitsOfByte([c EXCEPT ![BitAt(b, i)] = @ + 1], b, i + 1)

RECURSIVE CountBits(_, _)
CountBits(d, i) ==
    IF i = 0 THEN [v \in 0..1 |-> 0]
    ELSE CountBitsOfByte(CountBits(d, i - 1), d[i], 0)

(***************************************************************************)
(* calculate_entropy                                                       *)
(***************************************************************************)
\* the vector freq after normalisation: freq[v] / total
EntropyFreq(d, bm) ==
    IF bm
    THEN LET c == CountBits(d, Len(d))
             total == FMul(F(8), F(Len(d)))
         IN  [v \in 0..1 |-> FDiv(F(c[v]), total)]
    ELSE LET c == CountBytes(d, Len(d))
             total == F(Len(d))
         IN  [v \in 0..255 |-> FDiv(F(c[v]), total)]

\* mutant of EntropyKeeps: `!(p <= 0.0)`, which lets NaN through
EntropyKeepsNotLe(p) == ~FLe(p, F(0))

\* .filter(|&&p| p > 0.0)
EntropyKeeps(p) == FLt(F(0), p)

\* .map(|&p| -p * p.log2())
EntropyTerm(p) == FMul(FNeg(p), Log2(p))

\* .sum() over freq[lo .. hi - 1]; the sum is exact, so it is split in halves
RECURSIVE EntropySum(_, _, _)
EntropySum(freq, lo, hi) ==
    IF hi <= lo THEN F(0)
    ELSE IF hi = lo + 1
    THEN IF EntropyKeeps(freq[lo]) THEN EntropyTerm(freq[lo]) ELSE F(0)
    ELSE LET mid == (lo + hi) \div 2
         IN  FAdd(EntropySum(freq, lo, mid), EntropySum(freq, mid, hi))

calculate_entropy(d, bm) ==
    LET freq == EntropyFreq(d, bm)
    IN  EntropySum(freq, 0, Cardinality(DOMAIN freq))

\* mutant of CompressionPercent: the `1.0 -` forgotten
CompressionPercentNoComplement(entropy, bm) ==
    IF bm
    THEN FMul(F(100), entropy)
    ELSE FMul(F(100), FDiv(entropy, F(8)))

\* compression_percent in from_data
CompressionPercent(entropy, bm) ==
    IF bm
    THEN FMul(F(100), FSub(F(1), entropy))
    ELSE FMul(F(100), FSub(F(1), FDiv(entropy, F(8))))

(***************************************************************************)
(* calculate_chisquare                                                     *)
(***************************************************************************)
\* diff * diff / expected for one observed count
ChiTerm(obs, expected) ==
    LET diff == FSub(F(obs), expected)
    IN  FDiv(FMul(diff, diff), expected)

\* .sum::<f64>() over count[lo .. hi - 1]; the sum is exact, so it is split in halves
RECURSIVE ChiSum(_, _, _, _)
ChiSum(count, expected, lo, hi) ==
    IF hi <= lo THEN F(0)
    ELSE IF hi = lo + 1 THEN ChiTerm(count[lo], expected)
    ELSE LET mid == (lo + hi) \div 2
         IN  FAdd(ChiSum(count, expected, lo, mid), ChiSum(count, expected, mid, hi))

ChiSquare(d, bm) ==
    IF bm
    THEN LET count == CountBits(d, Len(d))
             total == Len(d) * 8
             expected == FDiv(F(total), F(2))
         IN  ChiSum(count, expected, 0, 2)
    ELSE LET count == CountBytes(d, Len(d))
             total == Len(d)
             expected == FDiv(F(total), F(256))
         IN  ChiSum(count, expected, 0, 256)

\* 1.0 - 0.5 * erfc(-z / SQRT_2) with z = (chisq - df).sqrt().  erfc is the
\* statrs library function: the value is kept as [kind |-> "pvalue", num, den]
\* carrying z^2 = num/den, and is NaN when chisq is NaN or chisq - df < 0.
PValue(chisq, df) ==
    LET zsq == FSub(chisq, F(df))
    IN  IF zsq.kind = "num" /\ zsq.num >= 0
        THEN [kind |-> "pvalue", num |-> zsq.num, den |-> zsq.den]
        ELSE IF zsq.kind = "inf" /\ zsq.num > 0
        THEN [kind |-> "pvalue", num |-> 1, den |-> 0]
        ELSE NaN

calculate_chisquare(d, bm) ==
    LET chisq == ChiSquare(d, bm)
    IN  <<chisq, PValue(chisq, IF bm THEN 1 ELSE 255)>>

(***************************************************************************)
(* calculate_mean                                                          *)
(***************************************************************************)
RECURSIVE SumBytes(_, _)
SumBytes(d, i) == IF i = 0 THEN 0 ELSE SumBytes(d, i - 1) + d[i]

calculate_mean(d) == FDiv(F(SumBytes(d, Len(d))), F(Len(d)))

(***************************************************************************)
(* byte_occurrences, bit_occurrences                                       *)
(***************************************************************************)
\* mutant of ByteRange: the exclusive range (0..255)
ByteRangeExclusive == 1..255

\* the range (0..=255) of byte_occurrences, as the indices of the result
ByteRange == 1..256

byte_occurrences(d) ==
    LET counts == CountBytes(d, Len(d))
        total == F(Len(d))
    IN  [k \in ByteRange |->
            [symbol |-> k - 1, count |-> counts[k - 1],
             fraction |-> FDiv(F(counts[k - 1]), total)]]

bit_occurrences(d) ==
    LET count == CountBits(d, Len(d))
        total == F(Len(d) * 8)
    IN  << [count |-> count[0], fraction |-> FDiv(F(count[0]), total)],
           [count |-> count[1], fraction |-> FDiv(F(count[1]), total)] >>

(***************************************************************************)
(* u64 arithmetic: 8 limbs in 0..255, least significant first.  Each       *)
(* operation yields the wrapped value and whether it overflowed 64 bits    *)
(* (a panic in a debug build, a wrap in a release build).                  *)
(***************************************************************************)
U64Limbs == 8

\* `b as u64` for a byte b
U64Of(b) == [k \in 1..U64Limbs |-> IF k = 1 THEN b ELSE 0]

RECURSIVE BitOr(_, _)
BitOr(a, b) ==
    IF a = 0 THEN b
    ELSE IF b = 0 THEN a
    ELSE (IF a % 2 = 1 \/ b % 2 = 1 THEN 1 ELSE 0) + 2 * BitOr(a \div 2, b \div 2)

\* a | b
U64Or(a, b) == [k \in 1..U64Limbs |-> BitOr(a[k], b[k])]

\* a << s for s a multiple of 8 (s is 8, 16 or 48 in the code)
U64Shl(a, s) ==
    [k \in 1..U64Limbs |-> IF k - (s \div 8) >= 1 THEN a[k - (s \div 8)] ELSE 0]

\* sum of a[i] * b[k + 1 - i] over the limb pairs of column k, from i on
RECURSIVE MulColumn(_, _, _, _)
MulColumn(a, b, k, i) ==
    IF i > U64Limbs THEN 0
    ELSE (IF k + 1 - i >= 1 /\ k + 1 - i <= U64Limbs THEN a[i] * b[k + 1 - i] ELSE 0)
         + MulColumn(a, b, k, i + 1)

\* the limbs k .. 2 * U64Limbs of the full product, carry coming in
RECURSIVE MulLimbs(_, _, _, _)
MulLimbs(a, b, k, carry) ==
    IF k > 2 * U64Limbs THEN <<>>
    ELSE LET t == MulColumn(a, b, k, 1) + carry
         IN  <<t % 256>> \o MulLimbs(a, b, k + 1, t \div 256)

\* a * b
U64Mul(a, b) ==
    LET full == MulLimbs(a, b, 1, 0)
    IN  [val |-> [k \in 1..U64Limbs |-> full[k]],
         overflow |-> \E k \in (U64Limbs + 1)..(2 * U64Limbs) : full[k] # 0]

\* the limbs k .. U64Limbs of a + b followed by the carry out
RECURSIVE AddLimbs(_, _, _, _)
AddLimbs(a, b, k, carry) ==
    IF k > U64Limbs THEN <<carry>>
    ELSE LET t == a[k] + b[k] + carry
         IN  <<t % 256>> \o AddLimbs(a, b, k + 1, t \div 256)

\* a + b
U64Add(a, b) ==
    LET full == AddLimbs(a, b, 1, 0)
    IN  [val |-> [k \in 1..U64Limbs |-> full[k]],
         overflow |-> full[U64Limbs + 1] # 0]

\* a < b, deciding at the most significant limb that differs, from limb k down
RECURSIVE U64LtFrom(_, _, _)
U64LtFrom(a, b, k) ==
    IF k = 0 THEN FALSE
    ELSE IF a[k] # b[k] THEN a[k] < b[k]
    ELSE U64LtFrom(a, b, k - 1)

U64Lt(a, b) == U64LtFrom(a, b, U64Limbs)

(***************************************************************************)
(* estimate_pi                                                             *)
(***************************************************************************)
ChunkSize == 6

\* data.chunks_exact(6): the whole chunks, the remainder dropped
ChunksExact(d) ==
    [k \in 1..(Len(d) \div ChunkSize) |->
        SubSeq(d, (k - 1) * ChunkSize + 1, k * ChunkSize)]

\* 1u64 << 48
RSq == U64Shl(U64Of(1), 48)

\* mutant of ChunkCoord: the three bytes read little-endian
ChunkCoordLittleEndian(chunk, from) ==
    U64Or(U64Or(U64Shl(U64Of(chunk[from + 3]), 16), U64Shl(U64Of(chunk[from + 2]), 8)),
          U64Of(chunk[from + 1]))

\* x (from = 0) or y (from = 3) of a chunk; chunk[j] of the code is chunk[j + 1]
ChunkCoord(chunk, from) ==
    U64Or(U64Or(U64Shl(U64Of(chunk[from + 1]), 16), U64Shl(U64Of(chunk[from + 2]), 8)),
          U64Of(chunk[from + 3]))

\* dist_sq = x * x + y * y, with the overflow of any of the three operations
DistSq(chunk) ==
    LET x == ChunkCoord(chunk, 0)
        y == ChunkCoord(chunk, 3)
        xx == U64Mul(x, x)
        yy == U64Mul(y, y)
        s == U64Add(xx.val, yy.val)
    IN  [val |-> s.val, overflow |-> xx.overflow \/ yy.overflow \/ s.overflow]

\* if dist_sq < r_sq
IsHit(dist_sq) == U64Lt(dist_sq, RSq)

\* hits, total and overflow after the first k chunks
RECURSIVE PiLoop(_, _)
PiLoop(chunks, k) ==
    IF k = 0 THEN [hits |-> 0, total |-> 0, overflow |-> FALSE]
    ELSE LET before == PiLoop(chunks, k - 1)
             dist_sq == DistSq(chunks[k])
         IN  [hits |-> before.hits + (IF IsHit(dist_sq.val) THEN 1 ELSE 0),
              total |-> before.total + 1,
              overflow |-> before.overflow \/ dist_sq.overflow]

PiRun(d) == LET chunks == ChunksExact(d) IN PiLoop(chunks, Len(chunks))

estimate_pi(d) ==
    LET r == PiRun(d)
    IN  IF r.total > 0
        THEN FDiv(FMul(F(4), F(r.hits)), F(r.total))
        ELSE F(0)

(***************************************************************************)
(* serial_correlation                                                      *)
(***************************************************************************)
Sentinel == F(-99999)

\* the five sums after the iterations 1 .. i of `for i in 1..data.len()`;
\* data[i - 1] and data[i] of the code are d[i] and d[i + 1]
RECURSIVE SerialSums(_, _)
SerialSums(d, i) ==
    IF i = 0
    THEN [sum_x |-> 0, sum_y |-> 0, sum_xy |-> 0, sum_x2 |-> 0, sum_y2 |-> 0]
    ELSE LET s == SerialSums(d, i - 1)
             x == d[i]
             y == d[i + 1]
         IN  [sum_x |-> s.sum_x + x, sum_y |-> s.sum_y + y,
              sum_xy |-> s.sum_xy + x * y,
              sum_x2 |-> s.sum_x2 + x * x, sum_y2 |-> s.sum_y2 + y * y]

\* mutant of SerialParts: n = data.len() instead of data.len() - 1
SerialPartsLenN(d) ==
    LET s == SerialSums(d, Len(d) - 1)
        n == Len(d)
    IN  [n |-> n,
         num |-> n * s.sum_xy - s.sum_x * s.sum_y,
         a |-> n * s.sum_x2 - s.sum_x * s.sum_x,
         b |-> n * s.sum_y2 - s.sum_y * s.sum_y]

\* mutant of SerialParts: num = n * sum_xy + sum_x * sum_y
SerialPartsPlus(d) ==
    LET s == SerialSums(d, Len(d) - 1)
        n == Len(d) - 1
    IN  [n |-> n,
         num |-> n * s.sum_xy + s.sum_x * s.sum_y,
         a |-> n * s.sum_x2 - s.sum_x * s.sum_x,
         b |-> n * s.sum_y2 - s.sum_y * s.sum_y]

\* n, num and the two factors under the square root
SerialParts(d) ==
    LET s == SerialSums(d, Len(d) - 1)
        n == Len(d) - 1
    IN  [n |-> n,
         num |-> n * s.sum_xy - s.sum_x * s.sum_y,
         a |-> n * s.sum_x2 - s.sum_x * s.sum_x,
         b |-> n * s.sum_y2 - s.sum_y * s.sum_y]

\* the guard `data.len() < 2`
TooShort(d) == Len(d) < 2

\* mutant of DenomIsZero: the sentinel only when both factors vanish
DenomIsZeroBoth(a, b) == a = 0 /\ b = 0

\* denom == 0.0, denom = sqrt(a * b): a product of integers is 0.0 exactly
\* when a factor is 0, and its square root is 0.0 exactly when it is
DenomIsZero(a, b) == a = 0 \/ b = 0

\* denom is NaN: the square root of a negative product
DenomIsNaN(a, b) == Sgn(a) * Sgn(b) < 0

serial_correlation(d) ==
    IF TooShort(d) THEN Sentinel
    ELSE LET p == SerialParts(d)
         IN  IF DenomIsZero(p.a, p.b) THEN Sentinel
             ELSE IF DenomIsNaN(p.a, p.b) THEN NaN
             ELSE [kind |-> "qsqrt", num |-> p.num, a |-> p.a, b |-> p.b]

(***************************************************************************)
(* EntStats::from_data                                                     *)
(***************************************************************************)
\* Option<T>: None is the empty sequence, Some(v) the sequence <<v>>
None == <<>>

Some(v) == <<v>>

\* mutant of Frequencies: both tables built whatever the mode
FrequenciesBoth(d, bm) == <<Some(byte_occurrences(d)), Some(bit_occurrences(d))>>

\* the pair (byte_frequencies, bit_frequencies) of from_data
Frequencies(d, bm) ==
    IF bm
    THEN <<None, Some(bit_occurrences(d))>>
    ELSE <<Some(byte_occurrences(d)), None>>

from_data(d, bm) ==
    LET entropy == calculate_entropy(d, bm)
        chi == calculate_chisquare(d, bm)
        freqs == Frequencies(d, bm)
    IN  [entropy |-> entropy,
         compression_percent |-> CompressionPercent(entropy, bm),
         chisquare |-> chi[1],
         p_value |-> chi[2],
         mean |-> calculate_mean(d),
         pi_estimate |-> estimate_pi(d),
         serial_correlation |-> serial_correlation(d),
         byte_frequencies |-> freqs[1],
         bit_frequencies |-> freqs[2]]

\* no EntStats yet
NoStats ==
    [entropy |-> Unset, compression_percent |-> Unset, chisquare |-> Unset,
     p_value |-> Unset, mean |-> Unset, pi_estimate |-> Unset,
     serial_correlation |-> Unset, byte_frequencies |-> None,
     bit_frequencies |-> None]

(***************************************************************************)
(* Specifications.                                                         *)
(*   Spec:   a caller hands a buffer and a mode to EntStats::from_data.    *)
(*   SpecPi: estimate_pi alone, on longer buffers.                         *)
(***************************************************************************)
Init ==
    /\ data \in BoundedSeq(Bytes, MaxLen)
    /\ bit_mode \in BOOLEAN
    /\ pc = "start"
    /\ stats = NoStats
    /\ overflow = FALSE

FromData ==
    /\ pc = "start"
    /\ stats' = from_data(data, bit_mode)
    /\ overflow' = PiRun(data).overflow
    /\ pc' = "done"
    /\ UNCHANGED <<data, bit_mode>>

Next == FromData

Spec == Init /\ [][Next]_vars

InitPi ==
    /\ data \in BoundedSeq(PiBytes, MaxPiLen)
    /\ bit_mode = FALSE
    /\ pc = "start"
    /\ stats = NoStats
    /\ overflow = FALSE

EstimatePi ==
    /\ pc = "start"
    /\ stats' = [stats EXCEPT !.pi_estimate = estimate_pi(data)]
    /\ overflow' = PiRun(data).overflow
    /\ pc' = "done"
    /\ UNCHANGED <<data, bit_mode>>

NextPi == EstimatePi

SpecPi == InitPi /\ [][NextPi]_vars

(***************************************************************************)
(* Definitions the properties are stated with.  They are written from the  *)
(* mathematics of the statements, not from the code.                       *)
(***************************************************************************)
Done == pc = "done"

\* number of positions of d that hold v
Occurrences(d, v) == Cardinality({i \in DOMAIN d : d[i] = v})

\* number of set bits of a byte
RECURSIVE PopCount(_)
PopCount(b) == IF b = 0 THEN 0 ELSE (b % 2) + PopCount(b \div 2)

\* number of set bits of the first i bytes of d
RECURSIVE SetBits(_, _)
SetBits(d, i) == IF i = 0 THEN 0 ELSE SetBits(d, i - 1) + PopCount(d[i])

\* sum of f[lo .. hi]
RECURSIVE SumOf(_, _, _)
SumOf(f, lo, hi) ==
    IF hi < lo THEN 0
    ELSE IF hi = lo THEN f[lo]
    ELSE SumOf(f, lo, (lo + hi) \div 2) + SumOf(f, (lo + hi) \div 2 + 1, hi)

AllEqual(d) == \A i, j \in DOMAIN d : d[i] = d[j]

\* a natural number below 2^31 as limbs, for products beyond 32 bits
RECURSIVE NatLimbs(_, _)
NatLimbs(n, k) == IF k = 0 THEN <<>> ELSE <<n % 256>> \o NatLimbs(n \div 256, k - 1)

\* a * b <= c * e for naturals below 2^31
ProductLe(a, b, c, e) ==
    LET l == U64Mul(NatLimbs(a, U64Limbs), NatLimbs(b, U64Limbs)).val
        r == U64Mul(NatLimbs(c, U64Limbs), NatLimbs(e, U64Limbs)).val
    IN  ~U64Lt(r, l)

(***************************************************************************)
(* C1: in byte mode the count of every symbol v is the number of positions *)
(* of the buffer that hold v and the 256 counts sum to len; in bit mode    *)
(* count[1] is the number of set bits, count[0] the number of clear bits,  *)
(* and they sum to 8 * len.  The empty buffer is included.                 *)
(***************************************************************************)
C1_ExactCounts ==
    Done =>
        IF bit_mode
        THEN LET bf == stats.bit_frequencies[1]
                 ones == SetBits(data, Len(data))
             IN  /\ bf[2].count = ones
                 /\ bf[1].count = 8 * Len(data) - ones
                 /\ bf[1].count + bf[2].count = 8 * Len(data)
        ELSE LET bf == stats.byte_frequencies[1]
             IN  /\ \A v \in 0..255 : bf[v + 1].count = Occurrences(data, v)
                 /\ SumOf([k \in 1..256 |-> bf[k].count], 1, 256) = Len(data)

C1_Witness ==
    /\ Done
    /\ bit_mode
    /\ Len(data) >= 2
    /\ stats.bit_frequencies[1][1].count > 0
    /\ stats.bit_frequencies[1][2].count > stats.bit_frequencies[1][1].count

(***************************************************************************)
(* C2: the result has exactly one of byte_frequencies / bit_frequencies:   *)
(* byte_frequencies alone when bit_mode is false, bit_frequencies alone    *)
(* when bit_mode is true.                                                  *)
(***************************************************************************)
C2_ExactlyOneTable ==
    Done =>
        /\ bit_mode => (stats.bit_frequencies # None /\ stats.byte_frequencies = None)
        /\ ~bit_mode => (stats.byte_frequencies # None /\ stats.bit_frequencies = None)

C2_Witness == Done /\ bit_mode /\ stats.bit_frequencies # None /\ Len(data) > 0

(***************************************************************************)
(* C3: serial_correlation is exactly the sentinel -99999.0 (not NaN) for   *)
(* every buffer of fewer than 2 bytes and every buffer of equal bytes.     *)
(***************************************************************************)
C3_SentinelOnConstant ==
    (Done /\ (Len(data) < 2 \/ AllEqual(data))) =>
        stats.serial_correlation = Sentinel

C3_Witness ==
    Done /\ Len(data) >= 3 /\ AllEqual(data) /\ stats.serial_correlation = Sentinel

(***************************************************************************)
(* C4: estimate_pi processes exactly floor(len / 6) consecutive chunks of  *)
(* 6 bytes (the trailing len mod 6 bytes have no influence), reads x from  *)
(* chunk bytes 0-2 and y from chunk bytes 3-5 as big-endian 24-bit         *)
(* integers, counts a hit exactly when x*x + y*y < 2^48, never overflows   *)
(* 64 bits, and returns 4 * hits / chunks, or 0.0 below 6 bytes.           *)
(***************************************************************************)
\* the big-endian 24-bit integer at d[i .. i + 2]
BigEndian24(d, i) == d[i] * 65536 + d[i + 1] * 256 + d[i + 2]

\* x*x + y*y < 2^48 for x, y < 2^24, in 12-bit halves:
\* x*x + y*y = hh * 2^24 + hl * 2^12 + ll, and s < 2^48 iff s \div 2^24 < 2^24
InsideCircle(x, y) ==
    LET xh == x \div 4096
        xl == x % 4096
        yh == y \div 4096
        yl == y % 4096
        hh == xh * xh + yh * yh
        hl == 2 * xh * xl + 2 * yh * yl
        ll == xl * xl + yl * yl
    IN  hh + (hl + ll \div 4096) \div 4096 < 16777216

\* hits among the first k whole 6-byte chunks of d
RECURSIVE ExpectedHits(_, _)
ExpectedHits(d, k) ==
    IF k = 0 THEN 0
    ELSE ExpectedHits(d, k - 1)
         + (IF InsideCircle(BigEndian24(d, 6 * k - 5), BigEndian24(d, 6 * k - 2))
            THEN 1 ELSE 0)

ExpectedPi(d) ==
    LET chunks == Len(d) \div 6
    IN  IF chunks = 0 THEN F(0) ELSE Num(4 * ExpectedHits(d, chunks), chunks)

C4_PiEstimate ==
    Done =>
        /\ stats.pi_estimate = ExpectedPi(data)
        /\ Len(data) < 6 => stats.pi_estimate = F(0)
        /\ ~overflow

C4_Witness ==
    /\ Done
    /\ Len(data) = 12
    /\ stats.pi_estimate = F(2)
    /\ ExpectedHits(data, 1) = 0

(***************************************************************************)
(* C5: chisquare is a number greater than or equal to 0 for every buffer,  *)
(* the empty one included, in either mode.                                 *)
(***************************************************************************)
C5_ChiSquareNonNegative ==
    Done => (stats.chisquare.kind = "num" /\ stats.chisquare.num >= 0)

(***************************************************************************)
(* C6, as stated: for the empty buffer, in either mode, entropy is 0.0 and *)
(* compression_percent is 0.0.                                             *)
(***************************************************************************)
C6_EmptyCompressionZero ==
    (Done /\ data = <<>>) =>
        (stats.entropy = F(0) /\ stats.compression_percent = F(0))

(***************************************************************************)
(* C6, amended: for the empty buffer, in either mode, entropy is 0.0 and   *)
(* compression_percent is 100.0.                                           *)
(***************************************************************************)
C6_EmptyEntropyZero ==
    (Done /\ data = <<>>) =>
        (stats.entropy = F(0) /\ stats.compression_percent = F(100))

C6_Witness == Done /\ data = <<>> /\ bit_mode /\ stats.entropy = F(0)

(***************************************************************************)
(* C7: in byte mode byte_frequencies has exactly 256 entries for every     *)
(* buffer, the entry at index i carrying symbol i, in ascending order, and *)
(* symbols that do not occur are present with count 0.                     *)
(***************************************************************************)
C7_ByteTableShape ==
    (Done /\ ~bit_mode) =>
        /\ Len(stats.byte_frequencies) = 1
        /\ DOMAIN stats.byte_frequencies[1] = 1..256
        /\ \A i \in 0..255 :
              /\ stats.byte_frequencies[1][i + 1].symbol = i
              /\ (\A k \in DOMAIN data : data[k] # i) =>
                    stats.byte_frequencies[1][i + 1].count = 0

C7_Witness ==
    /\ Done
    /\ ~bit_mode
    /\ Len(data) = 3
    /\ ~AllEqual(data)
    /\ stats.byte_frequencies[1][1].count = 0
    /\ stats.byte_frequencies[1][256].count > 0

(***************************************************************************)
(* C8: whenever serial_correlation is not the sentinel its value is in     *)
(* [-1, 1]: the buffer has at least 2 bytes, and with n = len - 1, x over  *)
(* buffer[0 .. len-2] and y over buffer[1 .. len-1], both factors          *)
(* n*Sum(x^2) - (Sum x)^2 and n*Sum(y^2) - (Sum y)^2 are positive and      *)
(* num^2 <= their product, num = n*Sum(xy) - Sum(x)*Sum(y).                *)
(***************************************************************************)
IsSentinel(v) == v.kind = "num" /\ v = Sentinel

\* n * Sum(u[i] * w[i]) - Sum(u) * Sum(w) over two sequences of length n
Covariance(u, w) ==
    Len(u) * SumOf([i \in DOMAIN u |-> u[i] * w[i]], 1, Len(u))
    - SumOf(u, 1, Len(u)) * SumOf(w, 1, Len(w))

C8_CorrelationInRange ==
    (Done /\ ~IsSentinel(stats.serial_correlation)) =>
        /\ Len(data) >= 2
        /\ stats.serial_correlation.kind = "qsqrt"
        /\ LET xs == SubSeq(data, 1, Len(data) - 1)
               ys == SubSeq(data, 2, Len(data))
               sc == stats.serial_correlation
           IN  /\ sc.num = Covariance(xs, ys)
               /\ sc.a = Covariance(xs, xs)
               /\ sc.b = Covariance(ys, ys)
               /\ sc.a > 0
               /\ sc.b > 0
               /\ ProductLe(Abs(sc.num), Abs(sc.num), sc.a, sc.b)

C8_Witness ==
    /\ Done
    /\ Len(data) >= 4
    /\ stats.serial_correlation.kind = "qsqrt"
    /\ stats.serial_correlation.num < 0

(***************************************************************************)
(* C9: in byte mode, for every non-empty buffer of one repeated byte,      *)
(* entropy is below 1.0 and compression_percent above 85: exactly one      *)
(* symbol has probability 1, every other symbol has probability 0 and is   *)
(* skipped in the entropy sum.                                             *)
(***************************************************************************)
C9_ConstantBufferEntropy ==
    (Done /\ ~bit_mode /\ Len(data) > 0 /\ AllEqual(data)) =>
        /\ FLt(stats.entropy, F(1))
        /\ FLe(F(0), stats.entropy)
        /\ FLt(F(85), stats.compression_percent)
        /\ LET freq == EntropyFreq(data, FALSE)
           IN  /\ freq[data[1]] = F(1)
               /\ EntropyKeeps(freq[data[1]])
               /\ \A v \in 0..255 : v # data[1] => (freq[v] = F(0) /\ ~EntropyKeeps(freq[v]))

C9_Witness ==
    /\ Done
    /\ ~bit_mode
    /\ Len(data) >= 3
    /\ AllEqual(data)
    /\ stats.entropy = F(0)
    /\ stats.compression_percent = F(100)

(***************************************************************************)
(* C10: serial_correlation is the sentinel exactly when the buffer has     *)
(* fewer than 2 bytes, or its first len-1 bytes are all equal, or its last *)
(* len-1 bytes are all equal; so every 2-byte buffer and buffers such as   *)
(* [5,5,7] yield the sentinel, and every other buffer a non-sentinel       *)
(* value.                                                                  *)
(***************************************************************************)
SentinelCase(d) ==
    \/ Len(d) < 2
    \/ AllEqual(SubSeq(d, 1, Len(d) - 1))
    \/ AllEqual(SubSeq(d, 2, Len(d)))

C10_SentinelExactly ==
    Done =>
        /\ IsSentinel(stats.serial_correlation) <=> SentinelCase(data)
        /\ Len(data) = 2 => IsSentinel(stats.serial_correlation)
        /\ ~SentinelCase(data) => stats.serial_correlation.kind = "qsqrt"

C10_Witness ==
    Done /\ data = <<5, 5, 7>> /\ IsSentinel(stats.serial_correlation)

=============================================================================
